---- MODULE Spec2Model ----
(***************************************************************************)
(* Model of the slyft command line client: the authenticated transport     *)
(* (Do), the three response decoders, the interactive selection            *)
(* (chooseAsset, chooseJob), job creation (postNewJob) and the polling     *)
(* loop (waitForJobCompletion) driven by the build and validate commands.  *)
(***************************************************************************)
EXTENDS Integers, Sequences, FiniteSets, TLC

\* ---------------------------------------------------------------- bounds
MaxWait == 11       \* largest wait budget (seconds) given to --wait
MaxLen == 3         \* longest JSON array a listing returns
MaxId == 3          \* largest record id the server hands out

\* ------------------------------------------------------ program constants
StatusOK == 200
StatusCreated == 201
StatusUnauthorized == 401
PollInterval == 5

Ids == 1..MaxId
JobStatuses == {"processed", "queued", "failed"}
Statuses == {StatusOK, StatusCreated, StatusUnauthorized, 404}
ExpectedCodes == {StatusOK, StatusCreated, StatusUnauthorized}

\* ------------------------------------------------------------ JSON bodies
\* A JSON object as the server sends it; typed = FALSE stands for an object
\* one of whose fields has the wrong JSON type (e.g. "id":"x").
JsonObject(typed, id, status, pid) ==
    [t |-> "object", typed |-> typed, id |-> id, status |-> status, project_id |-> pid]
JsonArray(elems) == [t |-> "array", elems |-> elems]
JsonNull == [t |-> "null"]
JsonScalar == [t |-> "scalar"]
JsonMalformed == [t |-> "malformed"]
\* a body whose read fails half way (ioutil.ReadAll returns an error)
Unreadable == [t |-> "unreadable"]

\* ----------------------------------------------------------------- errors
NoErr == [kind |-> "none"]
ConnectivityError == [kind |-> "ConnectivityError"]
ReadError == [kind |-> "TransportError"]
DecodeError == [kind |-> "DecodeError"]
NotFound == [kind |-> "NotFound"]
OutOfRange == [kind |-> "OutOfRange"]
InputError == [kind |-> "InputError"]

\* ---------------------------------------------------------------- records
Job(o) == [ID |-> o.id, Status |-> o.status, ProjectId |-> o.project_id]
Asset(o) == [ID |-> o.id, ProjectId |-> o.project_id]
Project(o) == [ID |-> o.id]
\* the value a nil pointer stands for (isNil is kept beside it)
NoJob == [ID |-> 0, Status |-> "", ProjectId |-> 0]
NoAsset == [ID |-> 0, ProjectId |-> 0]

AllTyped(elems) == \A i \in DOMAIN elems : elems[i].typed

\* result of a body decoder: recs with isNil = TRUE is the nil slice
DecOut(recs, isNil, err, panic) ==
    [recs |-> recs, isNil |-> isNil, err |-> err, panic |-> panic]

\* json.Unmarshal(body, &slice): null stores the nil slice and succeeds
extractAssetsFromBody(body) ==
    CASE body.t = "array" ->
            IF AllTyped(body.elems)
            THEN DecOut([i \in DOMAIN body.elems |-> Asset(body.elems[i])], FALSE, NoErr, FALSE)
            ELSE DecOut(<<>>, TRUE, DecodeError, FALSE)
      [] body.t = "null" -> DecOut(<<>>, TRUE, NoErr, FALSE)
      [] OTHER -> DecOut(<<>>, TRUE, DecodeError, FALSE)

\* json.Unmarshal(body, &a) with a of type *Asset: null stores a = nil and
\* succeeds, and []Asset{*a} then dereferences the nil pointer
extractAssetFromBody(body) ==
    CASE body.t = "object" ->
            IF body.typed
            THEN DecOut(<<Asset(body)>>, FALSE, NoErr, FALSE)
            ELSE DecOut(<<>>, TRUE, DecodeError, FALSE)
      [] body.t = "null" -> DecOut(<<>>, TRUE, NoErr, TRUE)
      [] OTHER -> DecOut(<<>>, TRUE, DecodeError, FALSE)

extractJobsFromBody(body) ==
    CASE body.t = "array" ->
            IF AllTyped(body.elems)
            THEN DecOut([i \in DOMAIN body.elems |-> Job(body.elems[i])], FALSE, NoErr, FALSE)
            ELSE DecOut(<<>>, TRUE, DecodeError, FALSE)
      [] body.t = "null" -> DecOut(<<>>, TRUE, NoErr, FALSE)
      [] OTHER -> DecOut(<<>>, TRUE, DecodeError, FALSE)

extractJobFromBody(body) ==
    CASE body.t = "object" ->
            IF body.typed
            THEN DecOut(<<Job(body)>>, FALSE, NoErr, FALSE)
            ELSE DecOut(<<>>, TRUE, DecodeError, FALSE)
      [] body.t = "null" -> DecOut(<<>>, TRUE, NoErr, TRUE)
      [] OTHER -> DecOut(<<>>, TRUE, DecodeError, FALSE)

\* the project body decoders live outside the files at hand
extractProjectsFromBody(body) ==
    IF body.t = "array" /\ AllTyped(body.elems)
    THEN DecOut([i \in DOMAIN body.elems |-> Project(body.elems[i])], FALSE, NoErr, FALSE)
    ELSE DecOut(<<>>, TRUE, DecodeError, FALSE)

extractProjectFromBody(body) ==
    IF body.t = "object" /\ body.typed
    THEN DecOut(<<Project(body)>>, FALSE, NoErr, FALSE)
    ELSE DecOut(<<>>, TRUE, DecodeError, FALSE)

\* variant: the two status codes of the message change places
respCodeToErrorMsg_Swapped(resp, expectedCode) ==
    IF resp.StatusCode = 401
    THEN [kind |-> "Unauthorized"]
    ELSE [kind |-> "UnexpectedStatus", was |-> expectedCode, expected |-> resp.StatusCode]

respCodeToErrorMsg(resp, expectedCode) ==
    IF resp.StatusCode = 401
    THEN [kind |-> "Unauthorized"]
    ELSE [kind |-> "UnexpectedStatus", was |-> resp.StatusCode, expected |-> expectedCode]

\* result of a response decoder: a body decoder's result and whether the
\* body was read
RespOut(d, bodyRead) ==
    [recs |-> d.recs, isNil |-> d.isNil, err |-> d.err, panic |-> d.panic,
     bodyRead |-> bodyRead]

extractProjectFromResponse(resp, expectedCode, listExpected) ==
    IF resp.StatusCode # expectedCode
    THEN RespOut(DecOut(<<>>, TRUE, respCodeToErrorMsg(resp, expectedCode), FALSE), FALSE)
    ELSE IF resp.Body.t = "unreadable"
    THEN RespOut(DecOut(<<>>, TRUE, ReadError, FALSE), TRUE)
    ELSE IF listExpected
    THEN RespOut(extractProjectsFromBody(resp.Body), TRUE)
    ELSE RespOut(extractProjectFromBody(resp.Body), TRUE)

extractAssetFromResponse(resp, expectedCode, listExpected) ==
    IF resp.StatusCode # expectedCode
    THEN RespOut(DecOut(<<>>, TRUE, respCodeToErrorMsg(resp, expectedCode), FALSE), FALSE)
    ELSE IF resp.Body.t = "unreadable"
    THEN RespOut(DecOut(<<>>, TRUE, ReadError, FALSE), TRUE)
    ELSE IF listExpected
    THEN RespOut(extractAssetsFromBody(resp.Body), TRUE)
    ELSE RespOut(extractAssetFromBody(resp.Body), TRUE)

extractJobFromResponse(resp, expectedCode, listExpected) ==
    IF resp.StatusCode # expectedCode
    THEN RespOut(DecOut(<<>>, TRUE, respCodeToErrorMsg(resp, expectedCode), FALSE), FALSE)
    ELSE IF resp.Body.t = "unreadable"
    THEN RespOut(DecOut(<<>>, TRUE, ReadError, FALSE), TRUE)
    ELSE IF listExpected
    THEN RespOut(extractJobsFromBody(resp.Body), TRUE)
    ELSE RespOut(extractJobFromBody(resp.Body), TRUE)

extractFromResponse(kind, resp, expectedCode, listExpected) ==
    CASE kind = "project" -> extractProjectFromResponse(resp, expectedCode, listExpected)
      [] kind = "asset" -> extractAssetFromResponse(resp, expectedCode, listExpected)
      [] kind = "job" -> extractJobFromResponse(resp, expectedCode, listExpected)

\* ------------------------------------------------------------------ state
VARIABLES
    pc,          \* "idle": no command run yet, "polling": inside the wait loop, "done"
    op,          \* the command or function that ran
    auth,        \* locally persisted credentials: "unreadable" (readAuthFromConfig
                 \* fails, e.g. none stored), "invalid" (read, not GoodForLogin), "valid"
    urlOK,       \* whether BackendBaseUrl + endpoint parses as a URL
    calls,       \* the Do calls of the command, in order
    dec,         \* arguments and result of the response decoder call
    sels,        \* arguments and result of each selection call of the command, in order
    job,         \* the *Job handed to waitForJobCompletion
    jobNil,      \* whether that pointer is nil
    budget,      \* the wait argument as given
    wait,        \* the remaining budget
    polls,       \* poll GETs attempted by the loop
    sleeps,      \* 5-second intervals slept
    shown,       \* records displayed in full (Job.Display, Asset.Display), in order
    saved,       \* whether a downloaded asset was written to its file
    timeoutMsg,  \* whether "did not complete in time" was printed
    result,      \* what waitForJobCompletion returned: "none", "true", "false"
    reported,    \* labels handed to ReportError
    crashed      \* the process died of a runtime panic

vars == <<pc, op, auth, urlOK, calls, dec, sels, job, jobNil, budget, wait,
          polls, sleeps, shown, saved, timeoutMsg, result, reported, crashed>>

AuthStates == {"unreadable", "invalid", "valid"}

\* --------------------------------------------------------------- transport
NoResp == [StatusCode |-> 0, Body |-> JsonMalformed]
Response(code, body) == [StatusCode |-> code, Body |-> body]
\* what the network does with a request once it is sent
NetFail == [err |-> TRUE, resp |-> NoResp]
NetReply(code, body) == [err |-> FALSE, resp |-> Response(code, body)]

Resource(coll, pid, id) == [coll |-> coll, pid |-> pid, id |-> id]
\* (job *Job) EndPoint
EndPoint(j) == Resource("jobs", j.ProjectId, j.ID)

DoOut(resource, method, events, err, resp) ==
    [resource |-> resource, method |-> method, events |-> events, err |-> err, resp |-> resp]

\* variant: credentials that are not good for login go out without the warning
Do_NoWarning(resource, method, net) ==
    IF ~urlOK
    THEN DoOut(resource, method, <<>>, TRUE, NoResp)
    ELSE IF auth = "unreadable"
    THEN DoOut(resource, method, <<"warn">>, TRUE, NoResp)
    ELSE DoOut(resource, method, <<"send">>, net.err, net.resp)

\* Do: build the request, read the credentials, warn, send
Do(resource, method, net) ==
    IF ~urlOK
    THEN DoOut(resource, method, <<>>, TRUE, NoResp)
    ELSE IF auth = "unreadable"
    THEN DoOut(resource, method, <<"warn">>, TRUE, NoResp)
    ELSE LET warn == IF auth = "invalid" THEN <<"warn">> ELSE <<>>
         IN  DoOut(resource, method, warn \o <<"send">>, net.err, net.resp)

Sent(d) == \E i \in DOMAIN d.events : d.events[i] = "send"
Warned(d) == \E i \in DOMAIN d.events : d.events[i] = "warn"

\* --------------------------------------------------------------- selection
\* ReadUserIntInput: a read error or the integer typed
InputFail == [err |-> TRUE, choice |-> 0]
InputInt(n) == [err |-> FALSE, choice |-> n]

\* whether assets[len(assets)-count:] is within the slice
TailInRange(assets, count) ==
    Len(assets) - count >= 0 /\ Len(assets) - count <= Len(assets)
\* variant: the first count elements, assets[:count]
TailSlice_Head(assets, count) == SubSeq(assets, 1, count)

\* assets[len(assets)-count:]
TailSlice(assets, count) == SubSeq(assets, Len(assets) - count + 1, Len(assets))

SelOut(d) ==
    [rec |-> NoAsset, isNil |-> TRUE, err |-> NoErr, panic |-> FALSE,
     fetched |-> <<>>, displayed |-> <<>>, didDisplay |-> FALSE, prompted |-> FALSE, do |-> d]

\* variant: the prompt comes before the test for a single record
pick_PromptFirst(base, recs, askUser, input) ==
    LET s == [base EXCEPT !.displayed = recs, !.didDisplay = TRUE]
        p == [s EXCEPT !.prompted = TRUE]
    IN  IF ~askUser
        THEN IF Len(recs) = 1 THEN [s EXCEPT !.rec = recs[1], !.isNil = FALSE] ELSE s
        ELSE IF input.err THEN [p EXCEPT !.err = InputError]
        ELSE IF input.choice > Len(recs) THEN [p EXCEPT !.err = OutOfRange]
        ELSE IF input.choice - 1 < 0 THEN [p EXCEPT !.panic = TRUE]
        ELSE [p EXCEPT !.rec = recs[input.choice], !.isNil = FALSE]

\* the tail of chooseAsset and chooseJob, from the display on
pick(base, recs, askUser, input) ==
    LET s == [base EXCEPT !.displayed = recs, !.didDisplay = TRUE]
        p == [s EXCEPT !.prompted = TRUE]
    IN  IF Len(recs) = 1 THEN [s EXCEPT !.rec = recs[1], !.isNil = FALSE]
        ELSE IF ~askUser THEN s
        ELSE IF input.err THEN [p EXCEPT !.err = InputError]
        ELSE IF input.choice > Len(recs) THEN [p EXCEPT !.err = OutOfRange]
        ELSE IF input.choice - 1 < 0 THEN [p EXCEPT !.panic = TRUE]
        ELSE [p EXCEPT !.rec = recs[input.choice], !.isNil = FALSE]

chooseAsset(endpoint, askUser, count, net, input) ==
    LET d == Do(endpoint, "GET", net)
        base == SelOut(d)
    IN  IF d.err THEN [base EXCEPT !.err = ConnectivityError]
        ELSE LET r == extractAssetFromResponse(d.resp, StatusOK, TRUE)
                 got == [base EXCEPT !.fetched = r.recs]
             IN  IF r.err # NoErr THEN [base EXCEPT !.err = r.err]
                 ELSE IF Len(r.recs) = 0 THEN [base EXCEPT !.err = NotFound]
                 ELSE IF count # 0 /\ ~TailInRange(r.recs, count)
                 THEN [got EXCEPT !.panic = TRUE]
                 ELSE pick(got, IF count # 0 THEN TailSlice(r.recs, count) ELSE r.recs,
                           askUser, input)

chooseJob(endpoint, askUser, net, input) ==
    LET d == Do(endpoint, "GET", net)
        base == [SelOut(d) EXCEPT !.rec = NoJob]
    IN  IF d.err THEN [base EXCEPT !.err = ConnectivityError]
        ELSE LET r == extractJobFromResponse(d.resp, StatusOK, TRUE)
                 got == [base EXCEPT !.fetched = r.recs]
             IN  IF r.err # NoErr THEN [base EXCEPT !.err = r.err]
                 ELSE IF Len(r.recs) = 0 THEN [base EXCEPT !.err = NotFound]
                 ELSE pick(got, r.recs, askUser, input)

\* ------------------------------------------------------------ job creation
\* chooseProject: an error or the chosen project
ProjectFail == [err |-> TRUE, p |-> [ID |-> 0]]
ProjectChosen(id) == [err |-> FALSE, p |-> [ID |-> id]]
\* (p *Project) JobsUrl
JobsUrl(p) == Resource("jobs", p.ID, 0)

NewJobOut(d) ==
    [job |-> NoJob, isNil |-> TRUE, reported |-> <<>>, shown |-> <<>>,
     panic |-> FALSE, calls |-> d]

postNewJob(kind, proj, net) ==
    IF proj.err
    THEN [NewJobOut(<<>>) EXCEPT !.reported = <<"Choosing a project">>]
    ELSE LET d == Do(JobsUrl(proj.p), "POST", net)
             base == NewJobOut(<<d>>)
         IN  IF d.err
             THEN [base EXCEPT !.reported = <<"Contacting the server">>]
             ELSE LET r == extractJobFromResponse(d.resp, StatusCreated, FALSE)
                  IN  IF r.panic THEN [base EXCEPT !.panic = TRUE]
                      ELSE IF r.err # NoErr
                      THEN [base EXCEPT !.reported = <<"Reading the server response">>]
                      ELSE IF Len(r.recs) = 1
                      THEN [base EXCEPT !.job = r.recs[1], !.isNil = FALSE,
                                        !.shown = <<r.recs[1]>>]
                      ELSE base

\* ------------------------------------------------------------------ inputs
Obj(id) == JsonObject(TRUE, id, "queued", 1)
BadObj == JsonObject(FALSE, 1, "queued", 1)
JobObj(id, status) == JsonObject(TRUE, id, status, 1)

RECURSIVE SeqsUpTo(_, _)
SeqsUpTo(S, n) ==
    IF n = 0 THEN {<<>>}
    ELSE LET shorter == SeqsUpTo(S, n - 1)
         IN  shorter \cup {Append(q, x) : q \in {r \in shorter : Len(r) = n - 1}, x \in S}

ListBodies ==
    {JsonArray(q) : q \in SeqsUpTo({Obj(i) : i \in Ids}, MaxLen)}
        \cup {JsonArray(<<Obj(1), BadObj>>), JsonNull, JsonMalformed, Obj(1)}
DecBodies ==
    ListBodies \cup {JsonScalar, Unreadable, BadObj} \cup {Obj(i) : i \in Ids}
ListNets ==
    {NetFail, NetReply(StatusUnauthorized, JsonMalformed)}
        \cup {NetReply(StatusOK, b) : b \in ListBodies}
CreateNets ==
    {NetFail, NetReply(StatusUnauthorized, JsonMalformed), NetReply(StatusOK, JobObj(1, "queued"))}
        \cup {NetReply(StatusCreated, b) :
                b \in {JsonNull, JsonMalformed, JsonArray(<<>>), BadObj,
                       JobObj(1, "queued"), JobObj(MaxId, "processed")}}
PollNets ==
    {NetFail, NetReply(StatusUnauthorized, JsonMalformed)}
        \cup {NetReply(StatusOK, b) :
                b \in {JsonNull, JsonMalformed} \cup {JobObj(1, s) : s \in JobStatuses}}
DeleteNets == {NetReply(StatusOK, JsonNull)}
AddNets ==
    {NetFail, NetReply(StatusUnauthorized, JsonMalformed)}
        \cup {NetReply(StatusCreated, b) : b \in {Obj(1), BadObj, JsonNull, JsonMalformed}}
GetNets ==
    {NetFail, NetReply(StatusUnauthorized, JsonMalformed),
     NetReply(StatusOK, JsonScalar), NetReply(StatusOK, Unreadable)}
AllJobsNets ==
    {NetFail, NetReply(StatusUnauthorized, JsonMalformed)}
        \cup {NetReply(StatusOK, b) :
                b \in {JsonNull, JsonArray(<<>>), JsonArray(<<Obj(1)>>),
                       JsonArray(<<Obj(1), Obj(MaxId)>>)}}
AssetProjects == {ProjectFail, ProjectChosen(1)}
Counts == -1..(MaxLen + 1)
Inputs == {InputFail} \cup {InputInt(n) : n \in -1..(MaxLen + 1)}
Waits == -1..MaxWait
Projects == {ProjectFail, ProjectChosen(1), ProjectChosen(MaxId)}

\* ------------------------------------------------------------------- Init
NoDec == [kind |-> "none"]

Init ==
    /\ pc = "idle"
    /\ op = "none"
    /\ auth \in AuthStates
    /\ urlOK \in BOOLEAN
    /\ calls = <<>>
    /\ dec = NoDec
    /\ sels = <<>>
    /\ job = NoJob
    /\ jobNil = TRUE
    /\ budget = 0
    /\ wait = 0
    /\ polls = 0
    /\ sleeps = 0
    /\ shown = <<>>
    /\ saved = FALSE
    /\ timeoutMsg = FALSE
    /\ result = "none"
    /\ reported = <<>>
    /\ crashed = FALSE

\* ---------------------------------------------------------------- actions
\* one call of a response decoder
Decode(kind, resp, expectedCode, listExpected) ==
    /\ pc = "idle"
    /\ LET out == extractFromResponse(kind, resp, expectedCode, listExpected)
       IN  /\ dec' = [kind |-> kind, resp |-> resp, expectedCode |-> expectedCode,
                      listExpected |-> listExpected, out |-> out]
           /\ crashed' = out.panic
    /\ pc' = "done"
    /\ op' = "decode"
    /\ UNCHANGED <<auth, urlOK, calls, sels, job, jobNil, budget, wait, polls, sleeps,
                   shown, saved, timeoutMsg, result, reported>>

\* (ass *Asset) EndPoint
AssetEndPoint(ass) == Resource("assets", ass.ProjectId, ass.ID)
\* (p *Project) AssetsUrl
AssetsUrl(p) == Resource("assets", p.ID, 0)
\* (p *Project) AssetstoreUrl
AssetstoreUrl(p) == Resource("assetstore", p.ID, 0)
\* DeleteApiModel: the DELETE request on the chosen record's endpoint
DeleteApiModel(ass, net) == Do(AssetEndPoint(ass), "DELETE", net)

\* the arguments and the result of one call of chooseAsset or chooseJob
SelRec(kind, askUser, count, input, out) ==
    [kind |-> kind, askUser |-> askUser, count |-> count, input |-> input, out |-> out]

\* DisplayAssets, DisplayJobs: a list of one record is displayed in full
DisplayedInFull(out) ==
    IF out.didDisplay /\ Len(out.displayed) = 1 THEN out.displayed ELSE <<>>

\* the asset list command: all is --all
listAssets(all, proj, net) ==
    /\ pc = "idle"
    /\ IF ~all /\ proj.err
       THEN /\ reported' = <<"Choosing the project">>
            /\ UNCHANGED <<sels, calls, shown, crashed>>
       ELSE LET out == IF all
                       THEN chooseAsset(Resource("assets", 0, 0), FALSE, 0, net, InputFail)
                       ELSE chooseAsset(AssetsUrl(proj.p), FALSE, 0, net, InputFail)
            IN  /\ sels' = <<SelRec("asset", FALSE, 0, InputFail, out)>>
                /\ calls' = <<out.do>>
                /\ shown' = DisplayedInFull(out)
                /\ crashed' = out.panic
                /\ reported' = IF ~all /\ ~out.panic /\ out.err # NoErr
                               THEN <<"Choosing the asset">>
                               ELSE reported
    /\ pc' = "done"
    /\ op' = "listAssets"
    /\ UNCHANGED <<auth, urlOK, dec, job, jobNil, budget, wait, polls, sleeps,
                   saved, timeoutMsg, result>>

\* the asset delete command: all is --all, named is whether a project name
\* was given or found in the lock file, count is --count
removeAsset(all, named, proj, count, net, input, dnet) ==
    /\ pc = "idle"
    /\ IF ~all /\ named /\ proj.err
       THEN /\ reported' = <<"Choosing the project">>
            /\ UNCHANGED <<sels, calls, shown, crashed>>
       ELSE LET out == IF all
                       THEN chooseAsset(Resource("assets", 0, 0), TRUE, 0, net, input)
                       ELSE IF ~named
                       THEN chooseAsset(Resource("assets", 0, 0), TRUE, count, net, input)
                       ELSE chooseAsset(AssetsUrl(proj.p), TRUE, count, net, input)
            IN  /\ sels' = <<SelRec("asset", TRUE, IF all THEN 0 ELSE count, input, out)>>
                /\ shown' = DisplayedInFull(out)
                /\ crashed' = out.panic
                /\ reported' = IF ~out.panic /\ out.err # NoErr
                               THEN <<"Choosing the asset">>
                               ELSE reported
                /\ calls' = IF out.panic \/ out.err # NoErr
                            THEN <<out.do>>
                            ELSE <<out.do, DeleteApiModel(out.rec, dnet)>>
    /\ pc' = "done"
    /\ op' = "removeAsset"
    /\ UNCHANGED <<auth, urlOK, dec, job, jobNil, budget, wait, polls, sleeps,
                   saved, timeoutMsg, result>>

\* the asset add command with readFileAndPostAsset: fileOK is whether
\* creatAssetParam could read and preflight the file
addAsset(proj, fileOK, net) ==
    /\ pc = "idle"
    /\ IF proj.err
       THEN /\ reported' = <<"Choosing the project">>
            /\ UNCHANGED <<calls, shown, crashed>>
       ELSE IF ~fileOK
       THEN /\ reported' = <<"Creating request">>
            /\ UNCHANGED <<calls, shown, crashed>>
       ELSE LET d == Do(AssetsUrl(proj.p), "POST", net)
                r == extractAssetFromResponse(d.resp, StatusCreated, FALSE)
            IN  /\ calls' = <<d>>
                /\ IF d.err
                   THEN /\ reported' = <<"Contacting server">>
                        /\ UNCHANGED <<shown, crashed>>
                   ELSE /\ crashed' = r.panic
                        /\ reported' = IF ~r.panic /\ r.err # NoErr
                                       THEN <<"Creating asset">>
                                       ELSE reported
                        /\ shown' = IF ~r.panic /\ r.err = NoErr /\ Len(r.recs) = 1
                                    THEN <<r.recs[1]>>
                                    ELSE shown
    /\ pc' = "done"
    /\ op' = "addAsset"
    /\ UNCHANGED <<auth, urlOK, dec, sels, job, jobNil, budget, wait, polls, sleeps,
                   saved, timeoutMsg, result>>

\* the asset get command with getAssetAndSaveToFile: createOK is whether
\* os.Create succeeds
getAsset(proj, net, createOK) ==
    /\ pc = "idle"
    /\ IF proj.err
       THEN /\ reported' = <<"Choosing the project">>
            /\ UNCHANGED <<calls, saved>>
       ELSE LET d == Do(AssetstoreUrl(proj.p), "GET", net)
            IN  /\ calls' = <<d>>
                /\ IF d.err
                   THEN reported' = <<"Downloading asset">> /\ UNCHANGED saved
                   ELSE IF d.resp.StatusCode # 200
                   THEN reported' = <<"Downloading asset">> /\ UNCHANGED saved
                   ELSE IF ~createOK
                   THEN reported' = <<"Creating asset file">> /\ UNCHANGED saved
                   ELSE IF d.resp.Body.t = "unreadable"
                   THEN reported' = <<"Writing asset file">> /\ UNCHANGED saved
                   ELSE saved' = TRUE /\ UNCHANGED reported
    /\ pc' = "done"
    /\ op' = "getAsset"
    /\ UNCHANGED <<auth, urlOK, dec, sels, job, jobNil, budget, wait, polls, sleeps,
                   shown, timeoutMsg, result, crashed>>

\* the job status command: all is --all, named is whether a project name was
\* given or found in the lock file; net1 answers the GET of the listing of
\* all jobs, net2 the GET of the project's jobs
jobStatusProject(all, named, net1, proj, net2, input) ==
    /\ pc = "idle"
    /\ LET first == all \/ ~named
           o1 == chooseJob(Resource("jobs", 0, 0), FALSE, net1, InputFail)
           s1 == IF first THEN <<SelRec("job", FALSE, 0, InputFail, o1)>> ELSE <<>>
           c1 == IF first THEN <<o1.do>> ELSE <<>>
           r1 == IF first THEN <<"Choosing the job">> ELSE <<>>
           d1 == IF first THEN DisplayedInFull(o1) ELSE <<>>
       IN  IF proj.err
           THEN /\ sels' = s1
                /\ calls' = c1
                /\ reported' = r1 \o <<"Choosing the project">>
                /\ shown' = d1
                /\ UNCHANGED crashed
           ELSE LET o2 == chooseJob(JobsUrl(proj.p), TRUE, net2, input)
                IN  /\ sels' = s1 \o <<SelRec("job", TRUE, 0, input, o2)>>
                    /\ calls' = c1 \o <<o2.do>>
                    /\ crashed' = o2.panic
                    /\ reported' = r1 \o (IF ~o2.panic /\ o2.err # NoErr
                                          THEN <<"Selecting the job">>
                                          ELSE <<>>)
                    /\ shown' = d1 \o DisplayedInFull(o2)
                                   \o (IF ~o2.panic /\ o2.err = NoErr
                                       THEN <<o2.rec>>
                                       ELSE <<>>)
    /\ pc' = "done"
    /\ op' = "jobStatusProject"
    /\ UNCHANGED <<auth, urlOK, dec, job, jobNil, budget, wait, polls, sleeps,
                   saved, timeoutMsg, result>>

\* the command action up to the entry of waitForJobCompletion's loop
StartJob(kind, proj, net, w) ==
    /\ pc = "idle"
    /\ LET r == postNewJob(kind, proj, net)
       IN  /\ job' = r.job
           /\ jobNil' = r.isNil
           /\ reported' = r.reported
           /\ shown' = r.shown
           /\ calls' = r.calls
           /\ crashed' = r.panic
           /\ pc' = IF r.panic THEN "done" ELSE "polling"
    /\ op' = kind
    /\ budget' = w
    /\ wait' = w
    /\ UNCHANGED <<auth, urlOK, dec, sels, polls, sleeps, saved, timeoutMsg, result>>

buildProject(proj, net, w) == StartJob("build", proj, net, w)

validateProject(proj, net, w) == StartJob("validate", proj, net, w)

\* variant: the loop runs once more when the budget is exactly used up
budgetLeft_Inclusive(w) == w >= 0

\* the loop condition of waitForJobCompletion
budgetLeft(w) == w > 0

\* variant: a decoder error ends the wait like a transport error
pollOutcome_AbortOnDecodeError(d) ==
    IF d.err THEN "abort"
    ELSE LET r == extractJobFromResponse(d.resp, StatusOK, FALSE)
         IN  IF r.panic THEN "panic"
             ELSE IF r.err # NoErr THEN "abort"
             ELSE IF Len(r.recs) = 1 /\ r.recs[1].Status = "processed"
             THEN "completed"
             ELSE "continue"

\* variant: the loop waits for another status word
pollOutcome_WrongMarker(d) ==
    IF d.err THEN "abort"
    ELSE LET r == extractJobFromResponse(d.resp, StatusOK, FALSE)
         IN  IF r.panic THEN "panic"
             ELSE IF /\ r.err = NoErr
                     /\ ~r.isNil
                     /\ Len(r.recs) = 1
                     /\ r.recs[1].Status = "queued"
             THEN "completed"
             ELSE "continue"

\* variant: any decoded job ends the wait with success, whatever its status
pollOutcome_AnyStatus(d) ==
    IF d.err THEN "abort"
    ELSE LET r == extractJobFromResponse(d.resp, StatusOK, FALSE)
         IN  IF r.panic THEN "panic"
             ELSE IF r.err = NoErr /\ ~r.isNil /\ Len(r.recs) = 1
             THEN "completed"
             ELSE "continue"

\* what one iteration makes of the answer to its GET: "abort" (return false),
\* "panic", "completed" (display, return true) or "continue"
pollOutcome(d) ==
    IF d.err THEN "abort"
    ELSE LET r == extractJobFromResponse(d.resp, StatusOK, FALSE)
         IN  IF r.panic THEN "panic"
             ELSE IF /\ r.err = NoErr
                     /\ ~r.isNil
                     /\ Len(r.recs) = 1
                     /\ r.recs[1].Status = "processed"
             THEN "completed"
             ELSE "continue"

\* one iteration of the loop of waitForJobCompletion
PollIteration(net) ==
    /\ pc = "polling"
    /\ budgetLeft(wait)
    /\ wait' = wait - PollInterval
    /\ sleeps' = sleeps + 1
    /\ IF jobNil
       THEN \* job.EndPoint() reads a field of the nil job
            /\ crashed' = TRUE
            /\ pc' = "done"
            /\ UNCHANGED <<calls, polls, shown, result>>
       ELSE LET d == Do(EndPoint(job), "GET", net)
                o == pollOutcome(d)
            IN  /\ calls' = Append(calls, d)
                /\ polls' = polls + 1
                /\ pc' = IF o = "continue" THEN "polling" ELSE "done"
                /\ crashed' = (o = "panic")
                /\ result' = CASE o = "abort" -> "false"
                               [] o = "completed" -> "true"
                               [] OTHER -> result
                /\ shown' = IF o = "completed"
                            THEN Append(shown, extractJobFromResponse(d.resp, StatusOK, FALSE).recs[1])
                            ELSE shown
    /\ UNCHANGED <<op, auth, urlOK, dec, sels, job, jobNil, budget, saved, timeoutMsg, reported>>

\* the loop's exit when the budget is used up
PollTimeout ==
    /\ pc = "polling"
    /\ ~budgetLeft(wait)
    /\ pc' = "done"
    /\ IF jobNil
       THEN \* the message reads job.ID of the nil job
            /\ crashed' = TRUE
            /\ UNCHANGED <<timeoutMsg, result>>
       ELSE /\ timeoutMsg' = TRUE
            /\ result' = "false"
            /\ UNCHANGED crashed
    /\ UNCHANGED <<op, auth, urlOK, calls, dec, sels, job, jobNil, budget, wait,
                   polls, sleeps, shown, saved, reported>>

Idle == pc = "idle"

Next ==
    \/ Idle /\ \E kind \in {"project", "asset", "job"}, code \in Statuses,
                  body \in DecBodies, expectedCode \in ExpectedCodes,
                  listExpected \in BOOLEAN :
                    Decode(kind, Response(code, body), expectedCode, listExpected)
    \/ Idle /\ \E all \in BOOLEAN :
                \E proj \in (IF all THEN {ProjectChosen(1)} ELSE AssetProjects),
                   net \in ListNets :
                    listAssets(all, proj, net)
    \/ Idle /\ \E proj \in AssetProjects, fileOK \in BOOLEAN, net \in AddNets :
                    addAsset(proj, fileOK, net)
    \/ Idle /\ \E proj \in AssetProjects, net \in GetNets, createOK \in BOOLEAN :
                    getAsset(proj, net, createOK)
    \/ Idle /\ \E all \in BOOLEAN, named \in BOOLEAN, proj \in AssetProjects :
                \E net1 \in (IF all \/ ~named THEN AllJobsNets ELSE {NetFail}),
                   net2 \in (IF proj.err THEN {NetFail} ELSE ListNets),
                   input \in (IF proj.err THEN {InputFail} ELSE Inputs) :
                    jobStatusProject(all, named, net1, proj, net2, input)
    \/ Idle /\ \E proj \in Projects, net \in CreateNets, w \in Waits :
                    buildProject(proj, net, w)
    \/ Idle /\ \E proj \in Projects, net \in CreateNets, w \in Waits :
                    validateProject(proj, net, w)
    \/ Idle /\ \E all \in BOOLEAN, named \in BOOLEAN :
                \E proj \in (IF ~all /\ named THEN AssetProjects ELSE {ProjectChosen(1)}),
                   count \in (IF all THEN {1} ELSE Counts),
                   net \in ListNets, input \in Inputs, dnet \in DeleteNets :
                    removeAsset(all, named, proj, count, net, input, dnet)
    \/ \E net \in PollNets : PollIteration(net)
    \/ PollTimeout

Spec == Init /\ [][Next]_vars

\* ================================================================ claims
JobCommand == op \in {"build", "validate"}
\* the Do calls made by the wait loop (the first call of the command is the POST)
PollCalls == IF JobCommand /\ Len(calls) >= 1 THEN SubSeq(calls, 2, Len(calls)) ELSE <<>>
LastCall(cs) == cs[Len(cs)]
Ceil5(w) == (w + 4) \div 5

\* a poll whose request went out and failed on the wire
TransportFailed(d) == Sent(d) /\ d.err
\* a poll that was answered with a status other than 200, or with a 200 whose
\* body is unreadable, malformed or not a well-typed single JSON object
Rejected(d) ==
    /\ ~d.err
    /\ \/ d.resp.StatusCode # 200
       \/ d.resp.Body.t \in {"unreadable", "malformed", "array", "scalar"}
       \/ d.resp.Body.t = "object" /\ ~d.resp.Body.typed
\* a poll that was answered 200 with a job whose status is st
Fetched(d, st) ==
    /\ ~d.err
    /\ d.resp.StatusCode = 200
    /\ d.resp.Body.t = "object"
    /\ d.resp.Body.typed
    /\ d.resp.Body.status = st
\* a step of the wait loop that made a poll
Polled == pc = "polling" /\ polls' = polls + 1
\* the step changed nothing but the budget, the interval count and the poll log
OnlyIntervalUsed ==
    /\ pc' = "polling"
    /\ wait' = wait - 5
    /\ sleeps' = sleeps + 1
    /\ UNCHANGED <<shown, timeoutMsg, result, reported, crashed, job, jobNil, budget>>

\* C1 (as stated): every failed poll, be it a transport error or a status or
\* decode error, leaves the loop running and costs only one interval.
C1_EveryFailedPollSwallowed ==
    [][(Polled /\ (TransportFailed(LastCall(calls')) \/ Rejected(LastCall(calls'))))
          => OnlyIntervalUsed]_vars

\* C1 (amended): a poll that is answered with an unexpected status or with a
\* body the decoder rejects leaves the loop running and costs only one
\* interval; a poll whose Do call returns an error ends the wait at once with
\* false and without the timeout message.
C1_DecoderErrorsSwallowed ==
    [][/\ (Polled /\ Rejected(LastCall(calls'))) => OnlyIntervalUsed
       /\ (Polled /\ LastCall(calls').err)
             => /\ pc' = "done"
                /\ result' = "false"
                /\ ~timeoutMsg'
                /\ ~crashed'
                /\ wait' = wait - 5
                /\ shown' = shown]_vars

\* a rejected poll was followed by a later poll, which failed on the wire
C1_Witness ==
    /\ pc = "done"
    /\ result = "false"
    /\ Len(PollCalls) >= 2
    /\ Rejected(PollCalls[1])
    /\ PollCalls[1].resp.StatusCode = 200
    /\ TransportFailed(LastCall(PollCalls))
    /\ ~timeoutMsg

\* every poll so far was answered, with a job whose status is not `processed`
\* or with a response the decoder rejects
NeverProcessed ==
    \A i \in DOMAIN PollCalls :
        \/ Rejected(PollCalls[i])
        \/ \E st \in JobStatuses \ {"processed"} : Fetched(PollCalls[i], st)

\* C2: with a job whose polls never fetch `processed`, the wait makes one
\* poll per 5-second interval, ends after exactly ceil(W/5) polls for W > 0
\* with the timeout message and the result false, and makes no poll at all
\* for W <= 0, also returning false.
C2_TimeoutAfterCeilPolls ==
    (JobCommand /\ ~jobNil /\ NeverProcessed)
        => /\ ~crashed
           /\ polls = Len(PollCalls)
           /\ sleeps = polls
           /\ wait = budget - 5 * polls
           /\ polls <= (IF budget > 0 THEN Ceil5(budget) ELSE 0)
           /\ pc = "polling" => (result = "none" /\ ~timeoutMsg)
           /\ pc = "done"
                => /\ polls = (IF budget > 0 THEN Ceil5(budget) ELSE 0)
                   /\ timeoutMsg
                   /\ result = "false"

\* budget 10, two polls that fetched a status, then the timeout
C2_Witness ==
    /\ JobCommand /\ ~jobNil /\ NeverProcessed
    /\ pc = "done"
    /\ budget = 10
    /\ polls = 2
    /\ Fetched(PollCalls[1], "queued")
    /\ Fetched(PollCalls[2], "failed")
    /\ timeoutMsg
    /\ result = "false"

\* C3: the first poll that fetches `processed`, the k-th, is the last one:
\* the wait has ended with true after k polls and k intervals, k is at most
\* ceil(W/5), the fetched job was displayed and no timeout message was printed.
C3_ProcessedEndsWait ==
    \A k \in DOMAIN PollCalls :
        Fetched(PollCalls[k], "processed")
            => /\ k = Len(PollCalls)
               /\ polls = k
               /\ sleeps = k
               /\ k <= Ceil5(budget)
               /\ 5 * k <= budget + 4
               /\ pc = "done"
               /\ result = "true"
               /\ ~timeoutMsg
               /\ ~crashed
               /\ Len(shown) = 2
               /\ shown[2].ID = PollCalls[k].resp.Body.id
               /\ shown[2].Status = "processed"

\* the third poll is the first to fetch `processed`
C3_Witness ==
    /\ JobCommand
    /\ Len(PollCalls) = 3
    /\ Fetched(PollCalls[1], "queued")
    /\ Fetched(PollCalls[2], "queued")
    /\ Fetched(PollCalls[3], "processed")
    /\ result = "true"
    /\ sleeps = 3

\* the selection's GET was answered 200 with a non-empty array of well-typed
\* objects
Listed(s) ==
    /\ ~s.out.do.err
    /\ s.out.do.resp.StatusCode = 200
    /\ s.out.do.resp.Body.t = "array"
    /\ AllTyped(s.out.do.resp.Body.elems)
    /\ Len(s.out.do.resp.Body.elems) > 0
\* the array of that answer
ListedElems(s) == s.out.do.resp.Body.elems
\* the user was asked and typed an integer
Entered(s) == s.out.prompted /\ ~s.input.err

\* C4: when the user is asked and enters an integer, an integer in
\* [1, count] returns the record at that position of the displayed list, and
\* every other integer gives the OutOfRange error and no record, without a
\* crash.
C4_ChoiceInRangeOrError ==
    \A n \in DOMAIN sels :
        LET s == sels[n]
        IN  Entered(s)
                => IF s.input.choice \in 1..Len(s.out.displayed)
                   THEN /\ ~s.out.isNil
                        /\ s.out.rec = s.out.displayed[s.input.choice]
                        /\ s.out.err = NoErr
                        /\ ~s.out.panic
                   ELSE /\ s.out.err = OutOfRange
                        /\ s.out.isNil
                        /\ ~s.out.panic

\* C5: chooseAsset with 0 < tailCount < len(list) displays exactly the last
\* tailCount elements of the fetched list in their order, ordinal i selects
\* element len-tailCount+i, and with tailCount 0 the whole list is displayed.
C5_TailIsLastK ==
    \A j \in DOMAIN sels :
        LET s == sels[j]
        IN  (s.kind = "asset" /\ Listed(s))
                => LET n == Len(ListedElems(s))
                       k == s.count
                   IN  /\ (0 < k /\ k < n)
                            => /\ s.out.didDisplay
                               /\ Len(s.out.displayed) = k
                               /\ \A i \in 1..k :
                                    s.out.displayed[i].ID = ListedElems(s)[n - k + i].id
                               /\ (Entered(s) /\ s.input.choice \in 1..k)
                                    => /\ ~s.out.isNil
                                       /\ s.out.rec.ID
                                            = ListedElems(s)[n - k + s.input.choice].id
                       /\ k = 0
                            => /\ s.out.didDisplay
                               /\ Len(s.out.displayed) = n
                               /\ \A i \in 1..n :
                                    s.out.displayed[i].ID = ListedElems(s)[i].id

\* asset delete over three assets with different ids, tailCount 2, the user
\* picks ordinal 2 and the DELETE goes to the third asset
C5_Witness ==
    /\ op = "removeAsset"
    /\ Len(sels) = 1
    /\ Listed(sels[1])
    /\ Len(ListedElems(sels[1])) = 3
    /\ ListedElems(sels[1])[1].id # ListedElems(sels[1])[2].id
    /\ ListedElems(sels[1])[2].id # ListedElems(sels[1])[3].id
    /\ ListedElems(sels[1])[1].id # ListedElems(sels[1])[3].id
    /\ sels[1].count = 2
    /\ Entered(sels[1])
    /\ sels[1].input.choice = 2
    /\ sels[1].out.rec.ID = ListedElems(sels[1])[3].id
    /\ Len(sels[1].out.displayed) = 2
    /\ Len(calls) = 2
    /\ calls[2].method = "DELETE"
    /\ calls[2].resource.id = ListedElems(sels[1])[3].id

\* C6: a response whose status differs from the expected one gives, in each
\* of the three decoders, no records and the Unauthorized error for status
\* 401, otherwise the UnexpectedStatus error with the received and the
\* expected status, and the body is not read.
C6_StatusMismatchClassified ==
    (op = "decode" /\ dec.resp.StatusCode # dec.expectedCode)
        => /\ dec.out.isNil
           /\ Len(dec.out.recs) = 0
           /\ ~dec.out.bodyRead
           /\ ~dec.out.panic
           /\ ~crashed
           /\ IF dec.resp.StatusCode = 401
              THEN dec.out.err.kind = "Unauthorized"
              ELSE /\ dec.out.err.kind = "UnexpectedStatus"
                   /\ dec.out.err.was = dec.resp.StatusCode
                   /\ dec.out.err.expected = dec.expectedCode

\* the job decoder answered 404 where 200 was expected
C6_Witness ==
    /\ op = "decode"
    /\ dec.kind = "job"
    /\ dec.resp.StatusCode = 404
    /\ dec.expectedCode = 200
    /\ dec.resp.Body.t = "array"
    /\ dec.out.err.kind = "UnexpectedStatus"
    /\ ~dec.out.bodyRead

\* a body that does not have the JSON shape asked for
WrongShape(body, listExpected) ==
    \/ body.t \in {"malformed", "null", "scalar"}
    \/ listExpected /\ body.t = "object"
    \/ ~listExpected /\ body.t = "array"

\* C7: with the expected status and a body of the wrong JSON shape, the asset
\* and job decoders return a DecodeError and no records, never a success and
\* never a crash.
C7_WrongShapeIsDecodeError ==
    (/\ op = "decode"
     /\ dec.kind \in {"asset", "job"}
     /\ dec.resp.StatusCode = dec.expectedCode
     /\ WrongShape(dec.resp.Body, dec.listExpected))
        => /\ dec.out.err = DecodeError
           /\ Len(dec.out.recs) = 0
           /\ ~dec.out.panic

\* C8 (as stated): with credentials that are missing or invalid, every Do
\* call whose request could be built shows the warning and then sends the
\* request.
C8_RequestAlwaysSent ==
    \A i \in DOMAIN calls :
        (urlOK /\ auth # "valid") => calls[i].events = <<"warn", "send">>

\* C8 (amended): with credentials that are read but not good for login, Do
\* shows the warning and then sends the request; with credentials that cannot
\* be read, Do shows the warning and returns the error without sending; with
\* good credentials it sends without a warning.
C8_WarnThenSendUnlessUnreadable ==
    \A i \in DOMAIN calls :
        urlOK
          => /\ auth = "invalid" => calls[i].events = <<"warn", "send">>
             /\ auth = "unreadable" => (calls[i].events = <<"warn">> /\ calls[i].err)
             /\ auth = "valid" => calls[i].events = <<"send">>

\* a job creation and a poll, both sent after the warning
C8_Witness ==
    /\ auth = "invalid"
    /\ Len(calls) = 2
    /\ calls[1].method = "POST"
    /\ calls[2].method = "GET"
    /\ calls[1].events = <<"warn", "send">>
    /\ calls[2].events = <<"warn", "send">>

\* C9: whenever exactly one record remains after narrowing (one record
\* fetched, or tailCount 1 in chooseAsset), that record, the last of the
\* fetched list, is returned without a prompt, whatever the prompting flag.
C9_SingleRecordNoPrompt ==
    \A j \in DOMAIN sels :
        LET s == sels[j]
        IN  (Listed(s) /\ (s.count = 1 \/ (s.count = 0 /\ Len(ListedElems(s)) = 1)))
                => /\ ~s.out.prompted
                   /\ ~s.out.isNil
                   /\ s.out.rec.ID = ListedElems(s)[Len(ListedElems(s))].id
                   /\ s.out.err = NoErr
                   /\ ~s.out.panic
                   /\ s.out.displayed = <<s.out.rec>>

\* asset delete with prompting, three assets, tailCount 1: the last one comes
\* back unprompted, is displayed in full and is the one deleted
C9_Witness ==
    /\ op = "removeAsset"
    /\ Len(sels) = 1
    /\ Listed(sels[1])
    /\ sels[1].askUser
    /\ sels[1].count = 1
    /\ Len(ListedElems(sels[1])) = 3
    /\ ListedElems(sels[1])[3].id # ListedElems(sels[1])[2].id
    /\ ListedElems(sels[1])[3].id # ListedElems(sels[1])[1].id
    /\ sels[1].out.rec.ID = ListedElems(sels[1])[3].id
    /\ ~sels[1].out.prompted
    /\ shown = <<sels[1].out.rec>>
    /\ Len(calls) = 2
    /\ calls[2].method = "DELETE"

\* C10: when postNewJob reports an error and yields no job, the build and
\* validate commands issue no poll GET and end without a crash.
C10_NoJobNoPollNoCrash ==
    (JobCommand /\ jobNil /\ Len(reported) > 0)
        => /\ ~crashed
           /\ polls = 0
           /\ \A i \in DOMAIN calls : calls[i].method # "GET"

\* C11: the wait returns true only when its most recent poll was answered
\* with one job whose status is `processed`; a poll answered with a job of
\* any other status leaves the loop in Polling with no result; and a wait
\* that has ended without any poll fetching `processed` has not returned
\* true: it returned false, unless the process died before returning.
C11_TrueOnlyOnProcessed ==
    [][/\ result' = "true"
            => /\ Len(PollCalls') >= 1
               /\ Fetched(LastCall(PollCalls'), "processed")
       /\ (Polled /\ \E st \in JobStatuses \ {"processed"} : Fetched(LastCall(calls'), st))
            => /\ pc' = "polling"
               /\ result' = "none"
               /\ shown' = shown
               /\ ~crashed'
       /\ (pc' = "done" /\ JobCommand'
             /\ \A i \in DOMAIN PollCalls' : ~Fetched(PollCalls'[i], "processed"))
            => /\ result' # "true"
               /\ crashed' \/ result' = "false"]_vars

\* polls that fetched `failed` and then `queued`, and the wait ended false
C11_Witness ==
    /\ JobCommand
    /\ pc = "done"
    /\ Len(PollCalls) >= 2
    /\ Fetched(PollCalls[1], "failed")
    /\ Fetched(PollCalls[2], "queued")
    /\ result = "false"
    /\ timeoutMsg
    /\ Len(shown) = 1

\* C12: for every non-empty fetched list and every integer tailCount,
\* chooseAsset narrows to a suffix of the fetched list of at most len(list)
\* elements, which it displays, and the call does not end in an out-of-range
\* crash (the crash on an entered ordinal below 1 is left aside here).
C12_NarrowingStaysInList ==
    \A j \in DOMAIN sels :
        LET s == sels[j]
        IN  (s.kind = "asset" /\ Listed(s))
                => LET elems == ListedElems(s)
                       n == Len(elems)
                       m == Len(s.out.displayed)
                   IN  /\ s.out.didDisplay
                       /\ 1 <= m /\ m <= n
                       /\ \A i \in 1..m : s.out.displayed[i].ID = elems[n - m + i].id
                       /\ s.out.panic
                            => (s.out.prompted /\ ~s.input.err /\ s.input.choice < 1)

====
